---- MODULE Spec2Model ----
(***************************************************************************)
(* Model of kalite/topic_tools/content_recommendation.py: the topic        *)
(* proximity engine (generate_recommendation_data and its helpers) and     *)
(* the three recommendation strategies built on it.                        *)
(*                                                                         *)
(* Python strings that the code concatenates and splits ("id dist", ' ')   *)
(* are modelled as sequences of one-character strings, so that             *)
(* str.split(' ') is computed and not assumed.  Python list indices are    *)
(* 0-based: At(l, i) is l[i].                                              *)
(***************************************************************************)
EXTENDS Integers, Sequences, FiniteSets, TLC

VARIABLES tree, data, ranking, phase, topic_index, subtopic_index, pending,
          group, exercise_log, video_log, content_log, now, exercise_cache, ret,
          walk

treeVars == <<data, ranking, phase, topic_index, subtopic_index, pending>>
userVars == <<group, exercise_log, video_log, content_log, now, exercise_cache, ret>>
vars == <<tree, data, ranking, phase, topic_index, subtopic_index, pending,
          group, exercise_log, video_log, content_log, now, exercise_cache, ret,
          walk>>

(* ------------------------------ bounds -------------------------------- *)
\* trees of the ranking build: topics, subtopics of a topic, subtopics in all
MaxTopics == 3
MaxSubs == 3
MaxSubtopics == 6
\* trees and logs of the calls
MaxUserTopics == 2
MaxUserSubs == 2
MaxLogs == 3
\* trees whose subtopic ids may repeat: topics, subtopics of a topic, ids
MaxWalkTopics == 3
MaxWalkSubs == 2
MaxWalkIds == 3

(* --------------------------- python helpers --------------------------- *)
At(l, i) == l[i + 1]

Range(f) == {f[x] : x \in DOMAIN f}

RECURSIVE Flatten(_)
Flatten(ll) == IF ll = <<>> THEN <<>> ELSE Head(ll) \o Flatten(Tail(ll))

RECURSIVE SplitFrom(_, _, _)
SplitFrom(s, i, cur) ==
  IF i > Len(s) THEN <<cur>>
  ELSE IF s[i] = " " THEN <<cur>> \o SplitFrom(s, i + 1, <<>>)
  ELSE SplitFrom(s, i + 1, Append(cur, s[i]))

\* s.split(' ')
split(s) == SplitFrom(s, 1, <<>>)

\* the one-character python strings ' ', '', '0', '1', '4'
BLANK == <<" ">>
EMPTY == <<>>

\* id + ' ' + str(dist)
Tagged(id, dist) == id \o <<" ", dist>>

(* ------------------------------ the tree ------------------------------ *)
IdChars == <<"A", "B", "C", "D", "E", "F", "G", "H", "I", "J", "K", "L">>

\* exercises of the k-th subtopic of a tree (k = 1, 2, ...): one, two, one, none, ...
ExerciseIds(k) ==
  LET c == IdChars[k] IN
  CASE k % 4 = 2 -> <<c \o "1", c \o "2">>
    [] k % 4 = 0 -> <<>>
    [] OTHER -> <<c \o "1">>

ExerciseNode(e) == [id |-> e, kind |-> "Exercise", title |-> e]

\* an exercise node with two more levels of exercises below it
NestedExerciseNode(e) ==
  [id |-> e, kind |-> "Exercise", title |-> e,
   children |-> <<[id |-> e \o "b", kind |-> "Exercise", title |-> e \o "b",
                   children |-> <<ExerciseNode(e \o "c")>>]>>]

\* node['children'] where 'children' in node, nothing otherwise
Below(node) == IF "children" \in DOMAIN node THEN node.children ELSE <<>>

\* the nodes that the loops of lines 324-345 visit for one child ex of a
\* subtopic, in the order of the visits: ex, then every ex2 followed by its
\* ex3; the recorded title is that of ex at every level
Levels(ex) ==
  LET visit(n, parent) == [id |-> n.id, kind |-> n.kind, title |-> ex.title, parent |-> parent]
  IN <<visit(ex, "")>> \o
     Flatten([i \in DOMAIN Below(ex) |->
                LET ex2 == Below(ex)[i] IN
                <<visit(ex2, ex.id)>> \o
                [j \in DOMAIN Below(ex2) |-> visit(Below(ex2)[j], ex2.id)]])

SubtopicNode(k) ==
  [id |-> <<IdChars[k]>>, kind |-> "Topic", title |-> "title-" \o IdChars[k],
   path |-> "/" \o IdChars[k] \o "/", description |-> "about-" \o IdChars[k],
   children |-> [i \in DOMAIN ExerciseIds(k) |-> ExerciseNode(ExerciseIds(k)[i])]]

RECURSIVE SumTo(_, _)
SumTo(shape, n) == IF n = 0 THEN 0 ELSE shape[n] + SumTo(shape, n - 1)

\* the tree with shape[t] subtopics in its t-th topic, subtopics named in order
TreeOf(shape) ==
  [children |->
     [t \in DOMAIN shape |->
        [id |-> <<"T", IdChars[t]>>, kind |-> "Topic",
         children |-> [s \in 1..shape[t] |-> SubtopicNode(SumTo(shape, t - 1) + s)]]]]

Shapes ==
  {sh \in UNION {[1..n -> 0..MaxSubs] : n \in 0..MaxTopics} :
     SumTo(sh, Len(sh)) <= MaxSubtopics}

Trees == {TreeOf(sh) : sh \in Shapes}

\* a tree of one topic with the subtopics A and B, the exercise of A nested
NestedTree ==
  [children |->
     <<[id |-> <<"T", IdChars[1]>>, kind |-> "Topic",
        children |-> <<[SubtopicNode(1) EXCEPT !.children =
                          [i \in DOMAIN @ |-> NestedExerciseNode(@[i].id)]],
                       SubtopicNode(2)>>]>>]

\* all subtopic nodes of a tree, in tree order
RECURSIVE SubtopicsFrom(_, _)
SubtopicsFrom(tr, t) ==
  IF t > Len(tr.children) THEN <<>>
  ELSE tr.children[t].children \o SubtopicsFrom(tr, t + 1)

Subtopics(tr) == SubtopicsFrom(tr, 1)

SubtopicIds(tr) == {Subtopics(tr)[i].id : i \in DOMAIN Subtopics(tr)}

(* ------------------------- users, logs, caches ------------------------ *)
Users == {"u1", "u2"}
Groups == {"g1", "g2"}

\* the user whose recommendations are requested; the other user is a peer,
\* of whose records the code reads the exercise id and the completion time only
Learner == "u1"

\* a NULL timestamp, which the database orders below every timestamp;
\* datetime.datetime.min
NULL == -1
DatetimeMin == 0

\* an exercise id that the logs may still hold but the tree no longer has
StaleExercise == "x"

\* the ids of that kind that a log of any user may hold
StaleExercises == {StaleExercise, "y"}

VideoIds == {"v1"}
ContentIds == {"c1"}

\* all exercise nodes of a tree down to the third level under a subtopic,
\* in the order of the loops of lines 322-345
RECURSIVE ExercisesFrom(_, _)
ExercisesFrom(subs, i) ==
  IF i > Len(subs) THEN <<>>
  ELSE Flatten([j \in DOMAIN subs[i].children |-> Levels(subs[i].children[j])])
       \o ExercisesFrom(subs, i + 1)

TreeExerciseIds(tr) ==
  LET exs == ExercisesFrom(Subtopics(tr), 1) IN {exs[i].id : i \in DOMAIN exs}

\* prerequisites declared for the j-th exercise of the k-th subtopic: the
\* exercises of the subtopic before it, twice, and a stale id first or last
Prerequisites(k, j) ==
  IF k = 1 THEN <<>>
  ELSE IF j = 1
       THEN <<StaleExercise>> \o ExerciseIds(k - 1) \o ExerciseIds(k - 1)
       ELSE ExerciseIds(k - 1) \o ExerciseIds(k - 1) \o <<StaleExercise>>

\* the key "topic" is not set yet
NoTopic == [absent |-> TRUE]

\* get_exercise_cache(): one record per exercise of the tree; "topic" is the
\* key that get_next_recommendations adds; a nested exercise has the exercise
\* above it for prerequisite
InitialExerciseCache(tr) ==
  LET subs == Subtopics(tr)
      exs == ExercisesFrom(subs, 1)
      node(e) == exs[CHOOSE n \in DOMAIN exs : exs[n].id = e]
      place(e) == CHOOSE p \in {<<k, j>> \in (DOMAIN subs) \X (1..2) : j <= Len(subs[k].children)} :
                    subs[p[1]].children[p[2]].id = e
  IN [e \in TreeExerciseIds(tr) |->
        [id |-> e, kind |-> "Exercise",
         prerequisites |-> IF node(e).parent = ""
                           THEN Prerequisites(place(e)[1], place(e)[2])
                           ELSE <<node(e).parent>>,
         topic |-> NoTopic]]

\* get_content_cache().get(id)
ContentCache == [c \in VideoIds \cup ContentIds |-> [id |-> c, kind |-> "Content"]]

Idle == [op |-> "idle"]

\* no call of get_subsequent_neighbors is being followed
NoWalk == [status |-> "none"]

(* ------------------------ get_neighbors_at_dist_1 --------------------- *)
\* the two list accesses that raise IndexError: the last child of an empty
\* previous topic, the first child of an empty next topic
NeighborsRaises(topic, subtopic, tr) ==
  \/ /\ subtopic - 1 <= -1
     /\ topic - 1 > -1
     /\ Len(At(tr.children, topic - 1).children) = 0
  \/ /\ ~(subtopic + 1 < Len(At(tr.children, topic).children))
     /\ topic + 1 < Len(tr.children)
     /\ Len(At(tr.children, topic + 1).children) = 0

\* a neighbour search that tags the left neighbour across a topic boundary as local
get_neighbors_at_dist_1_untiered(topic, subtopic, tr) ==
  LET topic_ == At(tr.children, topic)
      leftN ==
        IF subtopic - 1 > -1 THEN Tagged(At(topic_.children, subtopic - 1).id, "1")
        ELSE IF topic - 1 > -1
             THEN Tagged(At(At(tr.children, topic - 1).children,
                            Len(At(tr.children, topic - 1).children) - 1).id, "1")
             ELSE BLANK
      rightN ==
        IF subtopic + 1 < Len(topic_.children) THEN Tagged(At(topic_.children, subtopic + 1).id, "1")
        ELSE IF topic + 1 < Len(tr.children)
             THEN Tagged(At(At(tr.children, topic + 1).children, 0).id, "4")
             ELSE BLANK
  IN <<leftN, rightN>>

get_neighbors_at_dist_1(topic, subtopic, tr) ==
  LET topic_index_ == topic
      topic_ == At(tr.children, topic)
      prev == subtopic - 1
      next == subtopic + 1
      leftN ==
        IF prev > -1 THEN Tagged(At(topic_.children, prev).id, "1")
        ELSE IF topic_index_ - 1 > -1
             THEN LET neighbor_length == Len(At(tr.children, topic_index_ - 1).children)
                  IN Tagged(At(At(tr.children, topic_index_ - 1).children,
                               neighbor_length - 1).id, "4")
             ELSE BLANK
      rightN ==
        IF next < Len(topic_.children) THEN Tagged(At(topic_.children, next).id, "1")
        ELSE IF topic_index_ + 1 < Len(tr.children)
             THEN Tagged(At(At(tr.children, topic_index_ + 1).children, 0).id, "4")
             ELSE BLANK
  IN <<leftN, rightN>>

(* ----------------------- get_subsequent_neighbors --------------------- *)
\* state of the while loop: the two cursors, the two flags, the output list
WalkInit(nearest_neighbors) ==
  LET left_neigh == split(At(nearest_neighbors, 1))
      right_neigh == split(At(nearest_neighbors, 2))
  IN [left |-> IF Len(left_neigh) > 1 THEN At(left_neigh, 0) ELSE BLANK,
      right |-> IF Len(right_neigh) > 1 THEN At(right_neigh, 0) ELSE BLANK,
      at_four_left |-> FALSE, at_four_right |-> FALSE,
      other_neighbors |-> <<>>]

\* a loop that stops as soon as one side has no neighbour left
WalkGuard_both(w) == w.left # BLANK /\ w.right # BLANK

WalkGuard(w) == w.left # BLANK \/ w.right # BLANK

\* a left half that takes the distance of the next neighbour from the entry
\* two places from the end of the list
WalkLeft_from_end(w, d, curr) ==
  LET left == IF w.left = EMPTY THEN BLANK ELSE w.left IN
  IF left # BLANK
  THEN LET nxt == At(d[left], 1) IN
       IF nxt # BLANK
       THEN LET four == \/ w.at_four_left
                        \/ At(split(At(d[curr], 1)), 1) = <<"4">>
                        \/ At(split(At(d[left], Len(d[left]) - 2)), 1) = <<"4">>
                new_dist == IF four THEN "4" ELSE "1"
            IN [w EXCEPT !.left = At(split(nxt), 0),
                         !.at_four_left = four,
                         !.other_neighbors = Append(@, Tagged(At(split(nxt), 0), new_dist))]
       ELSE [w EXCEPT !.left = At(split(nxt), 0)]
  ELSE [w EXCEPT !.left = left]

\* the left half of one loop iteration
WalkLeft(w, d, curr) ==
  LET left == IF w.left = EMPTY THEN BLANK ELSE w.left IN
  IF left # BLANK
  THEN LET nxt == At(d[left], 1) IN
       IF nxt # BLANK
       THEN LET four == \/ w.at_four_left
                        \/ At(split(At(d[curr], 1)), 1) = <<"4">>
                        \/ At(split(nxt), 1) = <<"4">>
                new_dist == IF four THEN "4" ELSE "1"
            IN [w EXCEPT !.left = At(split(nxt), 0),
                         !.at_four_left = four,
                         !.other_neighbors = Append(@, Tagged(At(split(nxt), 0), new_dist))]
       ELSE [w EXCEPT !.left = At(split(nxt), 0)]
  ELSE [w EXCEPT !.left = left]

\* a right half that forgets that a far neighbour has been found
WalkRight_no_flag(w, d, curr) ==
  LET right == IF w.right = EMPTY THEN BLANK ELSE w.right IN
  IF right # BLANK
  THEN LET nxt == At(d[right], 2) IN
       IF nxt # BLANK
       THEN LET four == \/ At(split(At(d[curr], 2)), 1) = <<"4">>
                        \/ At(split(nxt), 1) = <<"4">>
                new_dist == IF four THEN "4" ELSE "1"
            IN [w EXCEPT !.right = At(split(nxt), 0),
                         !.other_neighbors = Append(@, Tagged(At(split(nxt), 0), new_dist))]
       ELSE [w EXCEPT !.right = At(split(nxt), 0)]
  ELSE [w EXCEPT !.right = right]

\* the right half of one loop iteration
WalkRight(w, d, curr) ==
  LET right == IF w.right = EMPTY THEN BLANK ELSE w.right IN
  IF right # BLANK
  THEN LET nxt == At(d[right], 2) IN
       IF nxt # BLANK
       THEN LET four == \/ w.at_four_right
                        \/ At(split(At(d[curr], 2)), 1) = <<"4">>
                        \/ At(split(nxt), 1) = <<"4">>
                new_dist == IF four THEN "4" ELSE "1"
            IN [w EXCEPT !.right = At(split(nxt), 0),
                         !.at_four_right = four,
                         !.other_neighbors = Append(@, Tagged(At(split(nxt), 0), new_dist))]
       ELSE [w EXCEPT !.right = At(split(nxt), 0)]
  ELSE [w EXCEPT !.right = right]

WalkStep(w, d, curr) == WalkRight(WalkLeft(w, d, curr), d, curr)

RECURSIVE WalkLoop(_, _, _)
WalkLoop(w, d, curr) ==
  IF WalkGuard(w) THEN WalkLoop(WalkStep(w, d, curr), d, curr) ELSE w

get_subsequent_neighbors(nearest_neighbors, d, curr) ==
  WalkLoop(WalkInit(nearest_neighbors), d, curr).other_neighbors

(* --------------------- generate_recommendation_data ------------------- *)
\* ITERATION 2.5 for one entry: ids at distance 0 or 1 first, then those at 4
\* a test that takes distance 1 for the far distance
IsDist4_one(recc) == At(split(recc), 1) = <<"1">>

IsDist4(recc) == At(split(recc), 1) = <<"4">>

SelectIds(related, keep4) ==
  LET sel == SelectSeq(related, LAMBDA r : IsDist4(r) = keep4)
  IN [i \in DOMAIN sel |-> At(split(sel[i]), 0)]

\* a sort that puts the far entries first
SortRelated_far_first(related) ==
  SelectIds(related, TRUE) \o SelectIds(related, FALSE)

SortRelated(related) ==
  LET at_dist_4 == SelectIds(related, TRUE)
      at_dist_lt_4 == SelectIds(related, FALSE)
  IN at_dist_lt_4 \o at_dist_4

\* first position at or after (t, s) that holds a subtopic
RECURSIVE Advance(_, _, _)
Advance(tr, t, s) ==
  IF t >= Len(tr.children) THEN <<Len(tr.children), 0>>
  ELSE IF s < Len(At(tr.children, t).children) THEN <<t, s>>
  ELSE Advance(tr, t + 1, 0)

EmptyTable == [x \in {} |-> <<>>]

Put(d, k, v) == [x \in DOMAIN d \cup {k} |-> IF x = k THEN v ELSE d[x]]

(* --------- generate_recommendation_data as one call (a function) ------ *)
\* the positions <<topic, subtopic>> of the two nested loops, in order
RECURSIVE PositionsFrom(_, _, _)
PositionsFrom(tr, t, s) ==
  LET p == Advance(tr, t, s) IN
  IF p[1] >= Len(tr.children) THEN <<>>
  ELSE <<p>> \o PositionsFrom(tr, p[1], p[2] + 1)

Positions(tr) == PositionsFrom(tr, 0, 0)

BuildRaises(tr) ==
  \E i \in DOMAIN Positions(tr) : NeighborsRaises(Positions(tr)[i][1], Positions(tr)[i][2], tr)

RECURSIVE Iteration1From(_, _, _)
Iteration1From(tr, d, i) ==
  IF i > Len(Positions(tr)) THEN d
  ELSE LET p == Positions(tr)[i]
           subtopic == At(At(tr.children, p[1]).children, p[2])
       IN Iteration1From(tr,
            Put(d, subtopic.id,
                <<Tagged(subtopic.id, "0")>> \o get_neighbors_at_dist_1(p[1], p[2], tr)),
            i + 1)

RECURSIVE Iteration2From(_, _)
Iteration2From(d, todo) ==
  IF todo = {} THEN d
  ELSE LET subtopic == CHOOSE x \in todo : TRUE
           related == d[subtopic]
           other_neighbors == get_subsequent_neighbors(related, d, subtopic)
       IN Iteration2From([d EXCEPT ![subtopic] = related \o other_neighbors],
                         todo \ {subtopic})

\* defined when the build does not raise
generate_recommendation_data(tr) ==
  LET d1 == Iteration1From(tr, EmptyTable, 1)
      d2 == Iteration2From(d1, DOMAIN d1)
  IN [s \in DOMAIN d2 |-> SortRelated(d2[s])]

(* ------------------------- the lookup tables -------------------------- *)
\* get_exercise_parents_lookup_table(): exercise id -> ancestry
\* the writes are listed in the order of the loops; the last write to a key stays
get_exercise_parents_lookup_table(tr) ==
  LET subs == Subtopics(tr)
      under(k) == Flatten([i \in DOMAIN subs[k].children |-> Levels(subs[k].children[i])])
      writes == Flatten([k \in DOMAIN subs |->
                           [n \in DOMAIN under(k) |->
                              [key |-> under(k)[n].id,
                               value |-> [subtopic_id |-> subs[k].id,
                                          subtopic_title |-> subs[k].title,
                                          kind |-> under(k)[n].kind,
                                          title |-> under(k)[n].title]]]])
      last(e) == CHOOSE n \in DOMAIN writes :
                   /\ writes[n].key = e
                   /\ \A m \in DOMAIN writes : writes[m].key = e => m <= n
  IN [e \in {writes[n].key : n \in DOMAIN writes} |-> writes[last(e)].value]

\* get_topic_tree_lookup_table(): node id -> metadata, here for the subtopics
get_topic_tree_lookup_table(tr) ==
  LET subs == Subtopics(tr) IN
  [id \in SubtopicIds(tr) |->
     LET n == subs[CHOOSE k \in DOMAIN subs : subs[k].id = id]
     IN [id |-> n.id, title |-> n.title, kind |-> n.kind, path |-> n.path,
         description |-> n.description]]

\* the leaves below a node, in tree order
RECURSIVE get_all_leaves(_)
get_all_leaves(topic_node) ==
  IF "children" \notin DOMAIN topic_node THEN <<topic_node>>
  ELSE Flatten([i \in DOMAIN topic_node.children |-> get_all_leaves(topic_node.children[i])])

\* get_topic_exercises(topic): the exercise leaves under a subtopic id
get_topic_exercises(tr, topic) ==
  LET subs == Subtopics(tr) IN
  IF topic \in SubtopicIds(tr)
  THEN get_all_leaves(subs[CHOOSE k \in DOMAIN subs : subs[k].id = topic])
  ELSE <<>>

\* l[a:b]
Slice(l, a, b) ==
  LET hi == IF b < Len(l) THEN b ELSE Len(l) IN
  IF a >= hi THEN <<>> ELSE SubSeq(l, a + 1, hi)

\* a listing that keeps the first exercise of every topic only
get_exercises_from_topics_one(tr, topicId_list) ==
  Flatten([i \in DOMAIN topicId_list |->
             LET exercises == Slice(get_topic_exercises(tr, topicId_list[i]), 0, 1)
             IN [j \in DOMAIN exercises |-> exercises[j].id]])

\* get_exercises_from_topics(topicId_list)
get_exercises_from_topics(tr, topicId_list) ==
  Flatten([i \in DOMAIN topicId_list |->
             LET exercises == Slice(get_topic_exercises(tr, topicId_list[i]), 0, 5)
             IN [j \in DOMAIN exercises |-> exercises[j].id]])

\* the python list [] where a record may stand as well
EmptyList == [i \in {} |-> i]

\* get_subtopic_data(subtopic_id): a record, or the empty list
get_subtopic_data(table, subtopic_id) ==
  IF subtopic_id \in DOMAIN table
  THEN [id |-> subtopic_id, title |-> table[subtopic_id].title, path |-> table[subtopic_id].path,
        description |-> table[subtopic_id].description]
  ELSE EmptyList

(* ------------------------- the log collaborator ----------------------- *)
\* the sequences that list the set S once each, no element before one that
\* the relation before puts ahead of it: an ORDER BY or a stable sort over an unordered source
OrderedBy(S, before) ==
  {q \in [1..Cardinality(S) -> S] :
     /\ \A i, j \in DOMAIN q : i # j => q[i] # q[j]
     /\ \A i, j \in DOMAIN q : i < j => ~before[q[j], q[i]]}

\* ExerciseLog.objects.filter(user=user).order_by("-latest_activity_timestamp")
MostRecentLogs(user) ==
  LET mine == {l \in exercise_log : l.user = user} IN
  OrderedBy(mine, [a \in mine, b \in mine |->
                     a.latest_activity_timestamp > b.latest_activity_timestamp])

Ids(q) == [i \in DOMAIN q |-> q[i].exercise_id]

\* get_most_recent_exercises(user): the possible results
get_most_recent_exercises(user) == {Ids(q) : q \in MostRecentLogs(user)}

\* sorted(exercises_by_user, key=completion_timestamp, reverse=True) compares
\* the keys in python: None against a datetime raises TypeError, which happens
\* exactly when the user's records hold a NULL and a set completion time
StrugglingRaises(user) ==
  \E a, b \in {l \in exercise_log : l.user = user} :
    a.completion_timestamp = NULL /\ b.completion_timestamp # NULL

\* get_struggling_exercises(user): the possible outcomes; the list is sorted
\* by completion_timestamp, most recent first
get_struggling_exercises(user) ==
  LET mine == {l \in exercise_log : l.user = user} IN
  IF StrugglingRaises(user)
  THEN {[status |-> "TypeError", value |-> <<>>]}
  ELSE {[status |-> "ok", value |-> Ids(SelectSeq(q, LAMBDA l : l.struggling))] :
          q \in OrderedBy(mine, [a \in mine, b \in mine |->
                                   a.completion_timestamp > b.completion_timestamp])}

\* get_exercise_prereqs(exercises); raises KeyError for an id not in the cache
PrereqsRaises(exercises) == \E i \in DOMAIN exercises : exercises[i] \notin DOMAIN exercise_cache

get_exercise_prereqs(exercises) ==
  Flatten([i \in DOMAIN exercises |-> exercise_cache[exercises[i]].prerequisites])

(* ----------------------- get_group_recommendations -------------------- *)
\* order of one user's logs in user_exercises: the extra() ordering,
\* "-null_complete" then "-completion_timestamp"
GroupBefore(logs) ==
  [a \in logs, b \in logs |->
     LET na == a.completion_timestamp = NULL
         nb == b.completion_timestamp = NULL
     IN \/ na /\ ~nb
        \/ na = nb /\ a.completion_timestamp > b.completion_timestamp]

\* a query that takes every user for a member of the group
UserList_everyone(user) == Users

UserList(user) == {v \in Users : group[v] = group[user]}

RECURSIVE SumOver(_, _)
SumOver(S, f) ==
  IF S = {} THEN 0
  ELSE LET x == CHOOSE y \in S : TRUE IN f[x] + SumOver(S \ {x}, f)

\* exercise_counts when the user has recent exercises: for every log of a
\* group member that is in recent_exercises, the id of the log before it
PatternCounts(user_list, logsOf, recent_exercises) ==
  LET hits(v, e) == Cardinality({i \in 2..Len(logsOf[v]) :
                                   /\ logsOf[v][i].exercise_id \in recent_exercises
                                   /\ logsOf[v][i - 1].exercise_id = e})
      keys == UNION {{logsOf[v][i - 1].exercise_id :
                        i \in {j \in 2..Len(logsOf[v]) :
                                 logsOf[v][j].exercise_id \in recent_exercises}} :
                     v \in user_list}
  IN [e \in keys |-> SumOver(user_list, [v \in user_list |-> hits(v, e)])]

\* exercise_counts when the user has none: Count("exercise_id") over the group
GroupCounts(user_list) ==
  LET logs == {l \in exercise_log : l.user \in user_list}
  IN [e \in {l.exercise_id : l \in logs} |->
        Cardinality({l \in logs : l.exercise_id = e})]

\* sorted(exercise_counts, key=count, reverse=False), ids only
SortedCounts(exercise_counts) ==
  OrderedBy(DOMAIN exercise_counts,
            [a \in DOMAIN exercise_counts, b \in DOMAIN exercise_counts |->
               exercise_counts[a] < exercise_counts[b]])

\* get_group_recommendations(user): the possible results
get_group_recommendations(user) ==
  LET user_list == UserList(user)
      recent_exercises == {l.exercise_id : l \in {m \in exercise_log : m.user = user}}
      logsOf(v) == {l \in exercise_log : l.user = v}
      ordered(v) == OrderedBy(logsOf(v), GroupBefore(logsOf(v)))
      orders == {f \in [user_list -> UNION {ordered(v) : v \in user_list}] :
                   \A v \in user_list : f[v] \in ordered(v)}
  IN IF recent_exercises # {}
     THEN UNION {SortedCounts(PatternCounts(user_list, f, recent_exercises)) : f \in orders}
     ELSE SortedCounts(GroupCounts(user_list))

(* -------------------- get_most_recent_incomplete_item ----------------- *)
\* list(qs.filter(user=user, complete=False).order_by("-latest_activity_timestamp")[:1])
Top1(logs, user) ==
  LET mine == {l \in logs : l.user = user /\ ~l.complete} IN
  IF mine = {} THEN {<<>>}
  ELSE {<<l>> : l \in {m \in mine : \A o \in mine :
                         o.latest_activity_timestamp <= m.latest_activity_timestamp}}

OrMin(timestamp) == IF timestamp = NULL THEN DatetimeMin ELSE timestamp

Item(list, id, kind) ==
  IF list = <<>> THEN <<>>
  ELSE <<[timestamp |-> OrMin(list[1].latest_activity_timestamp), id |-> id, kind |-> kind]>>

\* item_list.sort(key=timestamp); item_list[0]: the first of the least entries
SortFirst(item_list) ==
  item_list[CHOOSE i \in DOMAIN item_list :
              /\ \A j \in DOMAIN item_list : item_list[i].timestamp <= item_list[j].timestamp
              /\ \A j \in 1..(i - 1) : item_list[j].timestamp > item_list[i].timestamp]

None == [none |-> TRUE]

CacheGet(cache, id) == IF id \in DOMAIN cache THEN cache[id] ELSE None

\* get_most_recent_incomplete_item(user): the possible results
get_most_recent_incomplete_item(user) ==
  {LET item_list ==
         Item(exercise_list, IF exercise_list = <<>> THEN "" ELSE exercise_list[1].exercise_id, "Exercise")
         \o Item(video_list, IF video_list = <<>> THEN "" ELSE video_list[1].video_id, "Content")
         \o Item(content_list, IF content_list = <<>> THEN "" ELSE content_list[1].content_id, "Content")
   IN IF item_list # <<>>
      THEN LET item == SortFirst(item_list) IN
           IF item.kind = "Content" THEN CacheGet(ContentCache, item.id)
           ELSE CacheGet(exercise_cache, item.id)
      ELSE None :
   exercise_list \in Top1(exercise_log, user),
   video_list \in Top1(video_log, user),
   content_list \in Top1(content_log, user)}

InitTree ==
  /\ tree \in Trees
  /\ data = EmptyTable
  /\ ranking = EmptyTable
  /\ phase = "iter1"
  /\ topic_index = Advance(tree, 0, 0)[1]
  /\ subtopic_index = Advance(tree, 0, 0)[2]
  /\ pending = {}
  /\ group = [u \in Users |-> "g1"]
  /\ exercise_log = {}
  /\ video_log = {}
  /\ content_log = {}
  /\ now = [u \in Users |-> 1]
  /\ exercise_cache = InitialExerciseCache(tree)
  /\ ret = Idle
  /\ walk = NoWalk

\* ITERATION 1, one subtopic: its entry is itself at distance 0 and its two
\* neighbours; a failing list access ends the whole build
Iteration1 ==
  /\ phase = "iter1"
  /\ topic_index < Len(tree.children)
  /\ IF NeighborsRaises(topic_index, subtopic_index, tree)
     THEN /\ phase' = "IndexError"
          /\ UNCHANGED <<data, topic_index, subtopic_index>>
     ELSE LET subtopic == At(At(tree.children, topic_index).children, subtopic_index)
              neighbors_dist_1 == get_neighbors_at_dist_1(topic_index, subtopic_index, tree)
              nxt == Advance(tree, topic_index, subtopic_index + 1)
          IN /\ data' = Put(data, subtopic.id, <<Tagged(subtopic.id, "0")>> \o neighbors_dist_1)
             /\ topic_index' = nxt[1]
             /\ subtopic_index' = nxt[2]
             /\ phase' = phase
  /\ UNCHANGED <<tree, walk, ranking, pending, userVars>>

\* end of the first loop: the second loop will visit every key of data
Iteration1Done ==
  /\ phase = "iter1"
  /\ topic_index >= Len(tree.children)
  /\ phase' = "iter2"
  /\ pending' = DOMAIN data
  /\ UNCHANGED <<tree, walk, data, ranking, topic_index, subtopic_index, userVars>>

\* ITERATION 2, one subtopic, in the order the dictionary yields its keys
Iteration2 ==
  /\ phase = "iter2"
  /\ \E subtopic \in pending :
       LET related == data[subtopic]
           other_neighbors == get_subsequent_neighbors(related, data, subtopic)
       IN /\ data' = [data EXCEPT ![subtopic] = related \o other_neighbors]
          /\ pending' = pending \ {subtopic}
  /\ UNCHANGED <<tree, walk, ranking, phase, topic_index, subtopic_index, userVars>>

\* ITERATION 2.5 and return
Iteration25 ==
  /\ phase = "iter2"
  /\ pending = {}
  /\ ranking' = [s \in DOMAIN data |-> SortRelated(data[s])]
  /\ phase' = "done"
  /\ UNCHANGED <<tree, walk, data, topic_index, subtopic_index, pending, userVars>>

NextTree == Iteration1 \/ Iteration1Done \/ Iteration2 \/ Iteration25

SpecTree == InitTree /\ [][NextTree]_vars

(* ------------------------------ the calls ----------------------------- *)
\* the trees of the requests: every topic empty or full, and the nested tree
UserShapes == [1..MaxUserTopics -> {0, MaxUserSubs}]

UserTrees == {TreeOf(sh) : sh \in UserShapes} \cup {NestedTree}

\* the tables are functions of the tree alone: computed once per tree
RecommendationData ==
  [tr \in UserTrees |-> IF BuildRaises(tr) THEN EmptyTable ELSE generate_recommendation_data(tr)]

ParentsTable == [tr \in UserTrees |-> get_exercise_parents_lookup_table(tr)]

TopicTable == [tr \in UserTrees |-> get_topic_tree_lookup_table(tr)]

InitUser ==
  /\ tree \in UserTrees
  /\ data = EmptyTable
  /\ ranking = EmptyTable
  /\ phase = "iter1"
  /\ topic_index = Advance(tree, 0, 0)[1]
  /\ subtopic_index = Advance(tree, 0, 0)[2]
  /\ pending = {}
  /\ group \in {g \in [Users -> Groups] : g[Learner] = "g1"}
  /\ exercise_log = {}
  /\ video_log = {}
  /\ content_log = {}
  /\ now = [u \in Users |-> 1]
  /\ exercise_cache = InitialExerciseCache(tree)
  /\ ret = Idle
  /\ walk = NoWalk

\* number of records stored so far
Stored == Cardinality(exercise_log) + Cardinality(video_log) + Cardinality(content_log)

\* the log collaborator stores a new exercise record
LogExercise(u, e) ==
  /\ ret = Idle
  /\ Stored < MaxLogs
  /\ ~\E l \in exercise_log : l.user = u /\ l.exercise_id = e
  /\ \E complete, struggling \in BOOLEAN :
       /\ struggling => ~complete
       /\ u # Learner => ~struggling
       /\ exercise_log' = exercise_log \cup
            {[user |-> u, exercise_id |-> e, complete |-> complete, struggling |-> struggling,
              latest_activity_timestamp |-> now[u],
              completion_timestamp |-> IF complete THEN now[u] ELSE NULL]}
  /\ now' = [now EXCEPT ![u] = @ + 1]
  /\ UNCHANGED <<tree, walk, treeVars, group, video_log, content_log, exercise_cache, ret>>

LogVideo(u, v) ==
  /\ ret = Idle
  /\ Stored < MaxLogs
  /\ ~\E l \in video_log : l.user = u /\ l.video_id = v
  /\ \E complete, stamped \in BOOLEAN :
       video_log' = video_log \cup
         {[user |-> u, video_id |-> v, complete |-> complete,
           latest_activity_timestamp |-> IF stamped THEN now[u] ELSE NULL]}
  /\ now' = [now EXCEPT ![u] = @ + 1]
  /\ UNCHANGED <<tree, walk, treeVars, group, exercise_log, content_log, exercise_cache, ret>>

LogContent(u, c) ==
  /\ ret = Idle
  /\ Stored < MaxLogs
  /\ ~\E l \in content_log : l.user = u /\ l.content_id = c
  /\ \E complete, stamped \in BOOLEAN :
       content_log' = content_log \cup
         {[user |-> u, content_id |-> c, complete |-> complete,
           latest_activity_timestamp |-> IF stamped THEN now[u] ELSE NULL]}
  /\ now' = [now EXCEPT ![u] = @ + 1]
  /\ UNCHANGED <<tree, walk, treeVars, group, exercise_log, video_log, exercise_cache, ret>>

\* get_resume_recommendations(user)
Resume(u) ==
  /\ ret = Idle
  /\ \E final \in get_most_recent_incomplete_item(u) :
       ret' = [op |-> "resume", user |-> u, status |-> "ok",
               value |-> IF final # None THEN <<final>> ELSE <<>>]
  /\ UNCHANGED <<tree, walk, treeVars, group, exercise_log, video_log, content_log, now, exercise_cache>>

Raised(op, u, error) == [op |-> op, user |-> u, status |-> error]

\* a merge that takes three struggling candidates
Candidates_three(group_rec, struggling, topic_tree_based_data) ==
  Slice(group_rec, 0, 2) \o Slice(struggling, 0, 3) \o Slice(topic_tree_based_data, 0, 1)

\* group[:2] + struggling[:2] + topic_tree_based_data[:1]
Candidates(group_rec, struggling, topic_tree_based_data) ==
  Slice(group_rec, 0, 2) \o Slice(struggling, 0, 2) \o Slice(topic_tree_based_data, 0, 1)

\* get_next_recommendations(user)
Next(u) ==
  /\ ret = Idle
  /\ \E most_recent \in get_most_recent_exercises(u),
        struggles \in get_struggling_exercises(u),
        group_rec \in get_group_recommendations(u) :
       LET exercise_parents_table == ParentsTable[tree]
           has_current == Len(most_recent) > 0 /\ At(most_recent, 0) \in DOMAIN exercise_parents_table
           current_subtopic == exercise_parents_table[At(most_recent, 0)].subtopic_id
       IN IF has_current /\ BuildRaises(tree)
          THEN ret' = Raised("next", u, "IndexError") /\ UNCHANGED exercise_cache
          ELSE IF struggles.status = "TypeError"
          THEN ret' = Raised("next", u, "TypeError") /\ UNCHANGED exercise_cache
          ELSE IF PrereqsRaises(struggles.value)
          THEN ret' = Raised("next", u, "KeyError") /\ UNCHANGED exercise_cache
          ELSE LET from_tree ==
                     IF has_current
                     THEN get_exercises_from_topics(tree,
                            Slice(RecommendationData[tree][current_subtopic], 0, 3))
                     ELSE <<>>
                   topic_tree_based_data ==
                     SelectSeq(from_tree, LAMBDA ex : ex \notin Range(most_recent))
                   struggling == get_exercise_prereqs(struggles.value)
                   merged == Candidates(group_rec, struggling, topic_tree_based_data)
                   kept == SelectSeq(merged, LAMBDA id : id \in DOMAIN exercise_parents_table)
                   cache == [e \in DOMAIN exercise_cache |->
                               IF e \in Range(kept)
                               THEN [exercise_cache[e] EXCEPT
                                       !.topic = TopicTable[tree][exercise_parents_table[e].subtopic_id]]
                               ELSE exercise_cache[e]]
               IN /\ exercise_cache' = cache
                  /\ ret' = [op |-> "next", user |-> u, status |-> "ok",
                             value |-> [i \in DOMAIN kept |-> cache[kept[i]]],
                             group |-> group_rec, struggling |-> struggling,
                             topic_tree_based_data |-> topic_tree_based_data]
  /\ UNCHANGED <<tree, walk, treeVars, group, exercise_log, video_log, content_log, now>>

\* the sample size chosen at lines 229-240
SampleNum(recent_exercises) ==
  IF Len(recent_exercises) > 0
  THEN IF Len(recent_exercises) > 2 THEN 3 ELSE 1
  ELSE 0

\* random.sample(population, k): k distinct positions, in any order
Sample(population, k) ==
  {[i \in 1..k |-> population[p[i]]] :
     p \in {q \in [1..k -> DOMAIN population] : \A i, j \in 1..k : i # j => q[i] # q[j]}}

\* a loop that keeps every related subtopic
Unaccessed_all(resolved, recent_subtopics) == resolved

\* the inner loop: the related subtopics the user has not accessed
Unaccessed(resolved, recent_subtopics) ==
  SelectSeq(resolved, LAMBDA curr : curr.id \notin recent_subtopics)

\* the body of the loop over random_exercises, from the i-th on
RECURSIVE ExploreLoop(_, _, _, _, _, _)
ExploreLoop(tr, rec, random_exercises, recent_subtopics, i, acc) ==
  IF i > Len(random_exercises) \/ acc.status # "ok" THEN acc
  ELSE
    LET exercise_data == ParentsTable[tr][random_exercises[i]]
        subtopic_id == exercise_data.subtopic_id
        related_subtopics == Slice(rec[subtopic_id], 2, 7)
        resolved == [j \in DOMAIN related_subtopics |-> get_subtopic_data(TopicTable[tr], related_subtopics[j])]
        recommended_topics == Unaccessed(resolved, recent_subtopics)
        to_append ==
          IF Len(recommended_topics) > 0
          THEN [suggested_topic |-> [title |-> recommended_topics[1].title,
                                     path |-> recommended_topics[1].path,
                                     description |-> recommended_topics[1].description],
                interest_topic |-> [title |-> exercise_data.subtopic_title]]
          ELSE EmptyList
    IN IF \E j \in DOMAIN resolved : "id" \notin DOMAIN resolved[j]
       THEN [acc EXCEPT !.status = "TypeError"]
       ELSE ExploreLoop(tr, rec, random_exercises, recent_subtopics, i + 1,
              IF subtopic_id \notin acc.added
              THEN [acc EXCEPT !.final = Append(@, to_append), !.added = @ \cup {subtopic_id}]
              ELSE acc)

\* get_explore_recommendations(user)
Explore(u) ==
  /\ ret = Idle
  /\ IF BuildRaises(tree)
     THEN ret' = Raised("explore", u, "IndexError")
     ELSE \E recent_exercises \in get_most_recent_exercises(u) :
            LET exercise_parents_table == ParentsTable[tree] IN
            IF \E i \in DOMAIN recent_exercises : recent_exercises[i] \notin DOMAIN exercise_parents_table
            THEN ret' = Raised("explore", u, "KeyError")
            ELSE LET recent_subtopics ==
                       {exercise_parents_table[recent_exercises[i]].subtopic_id :
                          i \in DOMAIN recent_exercises}
                 IN \E random_exercises \in Sample(recent_exercises, SampleNum(recent_exercises)) :
                      LET out == ExploreLoop(tree, RecommendationData[tree],
                                             random_exercises, recent_subtopics, 1,
                                             [status |-> "ok", final |-> <<>>, added |-> {}])
                      IN IF out.status # "ok"
                         THEN ret' = Raised("explore", u, out.status)
                         ELSE ret' = [op |-> "explore", user |-> u, status |-> "ok",
                                      value |-> out.final,
                                      recent_subtopics |-> recent_subtopics,
                                      random_exercises |-> random_exercises]
  /\ UNCHANGED <<tree, walk, treeVars, group, exercise_log, video_log, content_log, now, exercise_cache>>

\* the response is handed to the caller
Deliver ==
  /\ ret # Idle
  /\ ret' = Idle
  /\ UNCHANGED <<tree, walk, treeVars, group, exercise_log, video_log, content_log, now, exercise_cache>>

NextUser ==
  \/ \E u \in Users, e \in TreeExerciseIds(tree) \cup StaleExercises : LogExercise(u, e)
  \/ Resume(Learner)
  \/ Next(Learner)
  \/ Explore(Learner)
  \/ Deliver

SpecUser == InitUser /\ [][NextUser]_vars

\* the resume strategy alone, over the three kinds of log
NextResume ==
  \/ \E e \in TreeExerciseIds(tree) \cup StaleExercises : LogExercise(Learner, e)
  \/ \E v \in VideoIds : LogVideo(Learner, v)
  \/ \E c \in ContentIds : LogContent(Learner, c)
  \/ Resume(Learner)
  \/ Deliver

SpecResume == InitUser /\ [][NextResume]_vars

(* ---------------------- get_recommended_exercises --------------------- *)
\* get_recommendation_tree(data): subtopic -> the exercise ids of its related
\* subtopics, in ranking order; an empty related id is passed over
\* a tree that keeps one exercise of every related subtopic
get_recommendation_tree_first(tr, d) ==
  [subtopic \in DOMAIN d |->
     Flatten([i \in DOMAIN d[subtopic] |->
                LET exercises == Slice(get_topic_exercises(tr, d[subtopic][i]), 0, 1)
                IN [j \in DOMAIN exercises |-> exercises[j].id]])]

get_recommendation_tree(tr, d) ==
  [subtopic \in DOMAIN d |->
     Flatten([i \in DOMAIN d[subtopic] |->
                LET rel_subtopic == d[subtopic][i] IN
                IF Len(rel_subtopic) > 0
                THEN LET exercises == get_topic_exercises(tr, rel_subtopic)
                     IN [j \in DOMAIN exercises |-> exercises[j].id]
                ELSE <<>>])]

\* the argument of the call: None, or a string
NoneArg == [none |-> TRUE, id |-> EMPTY]
StrArg(id) == [none |-> FALSE, id |-> id]

UnknownId == <<"u", "n", "k">>

\* not subtopic_id
Falsy(arg) == arg.none \/ arg.id = EMPTY

\* get_recommended_exercises(subtopic_id)
RecommendedExercises(arg) ==
  /\ ret = Idle
  /\ IF Falsy(arg)
     THEN ret' = [op |-> "recommended_exercises", arg |-> arg, status |-> "ok", value |-> <<>>]
     ELSE IF BuildRaises(tree)
     THEN ret' = [op |-> "recommended_exercises", arg |-> arg, status |-> "IndexError"]
     ELSE LET rtree == get_recommendation_tree(tree, generate_recommendation_data(tree)) IN
          IF arg.id \in DOMAIN rtree
          THEN ret' = [op |-> "recommended_exercises", arg |-> arg, status |-> "ok",
                       value |-> rtree[arg.id]]
          ELSE ret' = [op |-> "recommended_exercises", arg |-> arg, status |-> "KeyError"]
  /\ UNCHANGED <<tree, walk, treeVars, group, exercise_log, video_log, content_log, now, exercise_cache>>

NextExercises ==
  \/ \E arg \in {NoneArg} \cup {StrArg(id) : id \in SubtopicIds(tree) \cup {EMPTY, UnknownId}} :
       RecommendedExercises(arg)
  \/ Deliver

SpecExercises == InitTree /\ [][NextExercises]_vars

(* ===================== properties of the ranking build ================ *)
\* reading of one encoded entry "id dist" (or ' ', no neighbour)
EntryId(entry) == split(entry)[1]
EntryTag(entry) == split(entry)[2]
IsNear(entry) == EntryTag(entry) \in {<<"0">>, <<"1">>}
IsFar(entry) == EntryTag(entry) = <<"4">>
EntryIds(entries) == [i \in DOMAIN entries |-> EntryId(entries[i])]

NoRef == [id |-> EMPTY, tier |-> "none"]

Decode(entry) ==
  IF entry = BLANK THEN NoRef
  ELSE [id |-> EntryId(entry),
        tier |-> IF EntryTag(entry) = <<"1">> THEN "local"
                 ELSE IF EntryTag(entry) = <<"4">> THEN "boundary" ELSE "other"]

SubtopicAt(t, s) == At(At(tree.children, t).children, s).id
SubtopicCount(t) == Len(At(tree.children, t).children)

ExpectedLeft(t, s) ==
  IF s > 0 THEN [id |-> SubtopicAt(t, s - 1), tier |-> "local"]
  ELSE IF t > 0 THEN [id |-> SubtopicAt(t - 1, SubtopicCount(t - 1) - 1), tier |-> "boundary"]
  ELSE NoRef

ExpectedRight(t, s) ==
  IF s + 1 < SubtopicCount(t) THEN [id |-> SubtopicAt(t, s + 1), tier |-> "local"]
  ELSE IF t + 1 < Len(tree.children) THEN [id |-> SubtopicAt(t + 1, 0), tier |-> "boundary"]
  ELSE NoRef

\* C3: recommended_exercises returns the empty sequence, and does not raise,
\* for None, for a falsy id and for an id that is no subtopic of the tree.
C3_EmptyForFalsyOrUnknown ==
  (ret.op = "recommended_exercises" /\ (Falsy(ret.arg) \/ ret.arg.id \notin SubtopicIds(tree)))
    => (ret.status = "ok" /\ ret.value = <<>>)

\* C4: for the tree T1{A,B}, T2{C,D} the ranking built for A is exactly
\* [A, B, C, D], A and B near, C and D far, and nothing else.
C4_RankingOfA ==
  (tree = TreeOf(<<2, 2>>) /\ phase = "done")
    => /\ ranking[<<"A">>] = << <<"A">>, <<"B">>, <<"C">>, <<"D">> >>
       /\ {EntryId(data[<<"A">>][i]) : i \in {j \in DOMAIN data[<<"A">>] : IsNear(data[<<"A">>][j])}}
            = {<<"A">>, <<"B">>}
       /\ {EntryId(data[<<"A">>][i]) : i \in {j \in DOMAIN data[<<"A">>] : IsFar(data[<<"A">>][j])}}
            = {<<"C">>, <<"D">>}

\* C5: the adjacency entry of the subtopic at position s of topic t has, on the
\* left, the sibling s-1 (local), else the last subtopic of topic t-1
\* (boundary), else nothing; on the right, the sibling s+1 (local), else the
\* first subtopic of topic t+1 (boundary), else nothing.
C5_Adjacency ==
  \A i \in DOMAIN Positions(tree) :
    LET t == Positions(tree)[i][1]
        s == Positions(tree)[i][2]
    IN SubtopicAt(t, s) \in DOMAIN data =>
         /\ Decode(At(data[SubtopicAt(t, s)], 1)) = ExpectedLeft(t, s)
         /\ Decode(At(data[SubtopicAt(t, s)], 2)) = ExpectedRight(t, s)

\* an entry with a boundary neighbour on the left and a sibling on the right,
\* next to one with no left neighbour and one with a boundary on the right
C5_Witness ==
  /\ phase = "iter2"
  /\ \E a, b, c \in DOMAIN data :
       /\ Decode(At(data[a], 1)).tier = "boundary" /\ Decode(At(data[a], 2)).tier = "local"
       /\ Decode(At(data[b], 1)).tier = "none"
       /\ Decode(At(data[c], 1)).tier = "local" /\ Decode(At(data[c], 2)).tier = "boundary"

\* C6: in its own final ranking every subtopic occurs exactly once, at position 0.
C6_SelfFirstOnce ==
  phase = "done" =>
    \A s \in DOMAIN ranking :
      /\ At(ranking[s], 0) = s
      /\ Cardinality({i \in DOMAIN ranking[s] : ranking[s][i] = s}) = 1

\* a finished build in which some ranking holds far entries as well as near ones
C6_Witness ==
  /\ phase = "done"
  /\ \E s \in DOMAIN ranking :
       /\ \E i \in DOMAIN data[s] : IsFar(data[s][i])
       /\ \E i \in DOMAIN data[s] : i > 1 /\ IsNear(data[s][i])
       /\ Len(ranking[s]) >= 4

\* C7: in every final ranking the near entries (distance 0 or 1) come before
\* the far entries (distance 4), each group in the order of discovery.
C7_NearBeforeFar ==
  phase = "done" =>
    \A s \in DOMAIN ranking :
      LET found == SelectSeq(data[s], LAMBDA e : IsNear(e) \/ IsFar(e))
          ranked == SelectSeq(ranking[s], LAMBDA id : id # EMPTY)
      IN ranked = EntryIds(SelectSeq(found, IsNear)) \o EntryIds(SelectSeq(found, IsFar))

\* a finished build in which a far entry was discovered before a near one
C7_Witness ==
  /\ phase = "done"
  /\ \E s \in DOMAIN ranking :
       \E i, j \in DOMAIN data[s] : i < j /\ IsFar(data[s][i]) /\ IsNear(data[s][j])

(* ======================= properties of the calls ====================== *)
NoActivity(u) ==
  /\ ~\E l \in exercise_log : l.user = u
  /\ ~\E l \in video_log : l.user = u
  /\ ~\E l \in content_log : l.user = u

\* the exercise ids of the tree: those that have an ancestry entry
HasAncestry(id) == id \in TreeExerciseIds(tree)

\* the k-th subtopic of the tree holds the exercise, at any of the levels
Holds(k, id) ==
  LET exs == ExercisesFrom(<<Subtopics(tree)[k]>>, 1) IN \E n \in DOMAIN exs : exs[n].id = id

First(l, n) == SubSeq(l, 1, IF Len(l) < n THEN Len(l) ELSE n)

ValueIds(value) == [i \in DOMAIN value |-> value[i].id]

GroupLogCount(u, e) ==
  Cardinality({l \in exercise_log : group[l.user] = group[u] /\ l.exercise_id = e})

C2_MostRecentIncomplete ==
  (ret.op = "resume" /\ \A l \in exercise_log : l.exercise_id \in DOMAIN exercise_cache) =>
    LET records ==
          {[ts |-> OrMin(l.latest_activity_timestamp), entry |-> CacheGet(exercise_cache, l.exercise_id)] :
             l \in {m \in exercise_log : m.user = ret.user /\ ~m.complete}}
          \cup {[ts |-> OrMin(l.latest_activity_timestamp), entry |-> CacheGet(ContentCache, l.video_id)] :
             l \in {m \in video_log : m.user = ret.user /\ ~m.complete}}
          \cup {[ts |-> OrMin(l.latest_activity_timestamp), entry |-> CacheGet(ContentCache, l.content_id)] :
             l \in {m \in content_log : m.user = ret.user /\ ~m.complete}}
    IN IF records = {} THEN ret.value = <<>>
       ELSE \E r \in records :
              /\ \A o \in records : o.ts <= r.ts
              /\ ret.value = <<r.entry>>

\* C8: next returns at most 5 items: what the first 2 group candidates, then
\* the first 2 struggling-prerequisite candidates, then the first topic-based
\* candidate leave once the candidates without ancestry entry are dropped;
\* a dropped candidate is not replaced.
C8_AtMostFiveBySource ==
  (ret.op = "next" /\ ret.status = "ok") =>
    /\ Len(ret.value) <= 5
    /\ ValueIds(ret.value) =
         SelectSeq(First(ret.group, 2), HasAncestry)
           \o SelectSeq(First(ret.struggling, 2), HasAncestry)
           \o SelectSeq(First(ret.topic_tree_based_data, 1), HasAncestry)

\* the three sources all have candidates, the first struggling candidate has
\* no ancestry entry and a third one, which has, is left out
C8_Witness ==
  /\ ret.op = "next" /\ ret.status = "ok"
  /\ Len(ret.group) >= 1
  /\ Len(ret.struggling) >= 3
  /\ ~HasAncestry(ret.struggling[1]) /\ HasAncestry(ret.struggling[3])
  /\ Len(ret.topic_tree_based_data) >= 1
  /\ Len(ret.value) >= 3

\* C9: no entry that explore returns suggests a subtopic that holds an
\* exercise of the user's exercise history.
C9_NeverSuggestsVisited ==
  (ret.op = "explore" /\ ret.status = "ok") =>
    \A i \in DOMAIN ret.value :
      "suggested_topic" \in DOMAIN ret.value[i] =>
        \A k \in DOMAIN Subtopics(tree) :
          Subtopics(tree)[k].path = ret.value[i].suggested_topic.path =>
            ~\E l \in exercise_log :
               /\ l.user = ret.user
               /\ Holds(k, l.exercise_id)

\* explore has suggested a subtopic after passing over a visited one that
\* stood before it in the ranking window
C9_Witness ==
  /\ ret.op = "explore" /\ ret.status = "ok"
  /\ Len(ret.random_exercises) = 1 /\ Len(ret.value) = 1
  /\ "suggested_topic" \in DOMAIN ret.value[1]
  /\ \E k \in DOMAIN Subtopics(tree) :
       /\ Holds(k, ret.random_exercises[1])
       /\ At(RecommendationData[tree][Subtopics(tree)[k].id], 2) \in ret.recent_subtopics

\* C10: explore skips what it cannot resolve (an exercise id of the history
\* without ancestry entry, an entry of the ranking window without subtopic
\* metadata) and ends in no error (here on the trees for which the ranking
\* can be built).
C10_ExploreNeverFails ==
  (ret.op = "explore" /\ ~BuildRaises(tree)) => ret.status = "ok"

(* ================= further properties of the ranking build ============ *)
\* the table as ITERATION 1 leaves it, before any entry is expanded
Snapshot == Iteration1From(tree, EmptyTable, 1)

\* C11: whatever the order in which ITERATION 2 visits the subtopics, and
\* although it appends to entries that later walks read, the entry of every
\* expanded subtopic is what its walk yields on the table as ITERATION 1 left
\* it, and the finished ranking is the one a rebuild from the same tree gives.
C11_OrderIndependent ==
  /\ phase = "iter2" =>
       \A s \in DOMAIN data \ pending :
         data[s] = Snapshot[s] \o get_subsequent_neighbors(Snapshot[s], Snapshot, s)
  /\ phase = "done" => ranking = generate_recommendation_data(tree)

\* every subtopic of a tree of at least three has been expanded, so that
\* walks have read entries that earlier walks had appended to
C11_Witness ==
  /\ phase = "done"
  /\ Cardinality(DOMAIN data) >= 3
  /\ \E s \in DOMAIN data : Len(data[s]) > 3

(* ================ further properties of the calls ===================== *)
\* the ids of the exercises without exercises below them under the subtopic
\* with the given id, in tree order; none when the tree has no such subtopic
ExercisesOf(id) ==
  LET at == {k \in DOMAIN Subtopics(tree) : Subtopics(tree)[k].id = id} IN
  IF at = {} THEN <<>>
  ELSE LET exs == ExercisesFrom(<<Subtopics(tree)[CHOOSE k \in at : TRUE]>>, 1)
           leaf(n) == ~\E m \in DOMAIN exs : exs[m].parent = exs[n].id
       IN ValueIds(SelectSeq([n \in DOMAIN exs |-> [id |-> exs[n].id, leaf |-> leaf(n)]],
                         LAMBDA x : x.leaf))

\* C12: for a subtopic x of the tree, recommended_exercises(x) is the
\* concatenation, in the order of x's ranking, of the exercise ids of every
\* ranked subtopic in tree order; an entry without exercises adds nothing and
\* no id is removed.
C12_ConcatenationInRankingOrder ==
  (ret.op = "recommended_exercises" /\ ret.status = "ok" /\ ~Falsy(ret.arg)) =>
    LET related == generate_recommendation_data(tree)[ret.arg.id]
    IN /\ related[1] = ret.arg.id
       /\ ret.value = Flatten([i \in DOMAIN related |-> ExercisesOf(related[i])])

\* the call has answered for a subtopic whose ranking holds a subtopic with
\* two exercises, one with none and an entry that is no subtopic
C12_Witness ==
  /\ ret.op = "recommended_exercises" /\ ret.status = "ok" /\ ~Falsy(ret.arg)
  /\ LET related == generate_recommendation_data(tree)[ret.arg.id]
     IN /\ \E i \in DOMAIN related : Len(ExercisesOf(related[i])) = 2
        /\ \E i \in DOMAIN related : related[i] \in SubtopicIds(tree) /\ ExercisesOf(related[i]) = <<>>
        /\ \E i \in DOMAIN related : related[i] \notin SubtopicIds(tree)
  /\ Len(ret.value) >= 4

\* C13: explore samples min(3, n) exercises of the n recent exercises of the
\* user, at pairwise distinct positions of the list.
C13_SampleSize ==
  (ret.op = "explore" /\ ret.status = "ok") =>
    LET n == Cardinality({l \in exercise_log : l.user = ret.user})
    IN /\ Len(ret.random_exercises) = (IF n < 3 THEN n ELSE 3)
       /\ \A i, j \in DOMAIN ret.random_exercises :
            i # j => ret.random_exercises[i] # ret.random_exercises[j]

\* the user's most recently active exercise record
LastLog(u) ==
  CHOOSE l \in {m \in exercise_log : m.user = u} :
    \A o \in {m \in exercise_log : m.user = u} :
      o.latest_activity_timestamp <= l.latest_activity_timestamp

\* the subtopic that holds the exercise
SubtopicOf(e) ==
  Subtopics(tree)[CHOOSE k \in DOMAIN Subtopics(tree) : Holds(k, e)].id

\* the exercises not in the user's history among those of the ranking
\* entries at positions from..(to - 1) of the current subtopic
Unvisited(u, from, to) ==
  LET c == SubtopicOf(LastLog(u).exercise_id)
      entries == SubSeq(RecommendationData[tree][c], from + 1,
                        IF Len(RecommendationData[tree][c]) < to
                        THEN Len(RecommendationData[tree][c]) ELSE to)
      all == Flatten([i \in DOMAIN entries |-> First(ExercisesOf(entries[i]), 5)])
  IN SelectSeq(all, LAMBDA e : ~\E l \in exercise_log : l.user = u /\ l.exercise_id = e)

HasCurrent(u) ==
  /\ \E l \in exercise_log : l.user = u
  /\ HasAncestry(LastLog(u).exercise_id)

\* C14, as the specification states it: the topic-based item of next is the
\* first exercise not in the user's history among the exercises of the
\* entries at positions 1 to 3 of the current subtopic's ranking, and never
\* an exercise of the current subtopic itself.
C14_TopicItemExcludesSelf ==
  (ret.op = "next" /\ ret.status = "ok" /\ HasCurrent(ret.user)) =>
    /\ First(ret.topic_tree_based_data, 1) = First(Unvisited(ret.user, 1, 4), 1)
    /\ \A i \in DOMAIN First(ret.topic_tree_based_data, 1) :
         SubtopicOf(ret.topic_tree_based_data[i]) # SubtopicOf(LastLog(ret.user).exercise_id)

\* C14, as the code has it: the topic-based candidates are the exercises not
\* in the user's history among the exercises (five at most per entry) of the
\* entries at positions 0 to 2 of the current subtopic's ranking, the current
\* subtopic included and an entry that is no subtopic adding nothing; the
\* item is the first of them. Without current subtopic there is none.
C14_TopicItemIncludesSelf ==
  (ret.op = "next" /\ ret.status = "ok") =>
    IF HasCurrent(ret.user)
    THEN ret.topic_tree_based_data = Unvisited(ret.user, 0, 3)
    ELSE ret.topic_tree_based_data = <<>>

\* the topic-based item is an exercise of the current subtopic itself
C14_Witness ==
  /\ ret.op = "next" /\ ret.status = "ok" /\ HasCurrent(ret.user)
  /\ Len(ret.topic_tree_based_data) >= 1
  /\ SubtopicOf(ret.topic_tree_based_data[1]) = SubtopicOf(LastLog(ret.user).exercise_id)
  /\ \E i \in DOMAIN ret.value : ret.value[i].id = ret.topic_tree_based_data[1]

\* C15: on every tree whose topics all have a children sequence, possibly
\* empty, the adjacency construction ends without failure and leaves exactly
\* one entry per subtopic.
C15_AdjacencyCompletes ==
  /\ phase # "IndexError"
  /\ phase \in {"iter2", "done"} => DOMAIN data = SubtopicIds(tree)

\* C16: next only reads: whatever calls have been made, every record of the
\* shared exercise cache is as it was before them (the ancestry table and the
\* node table are functions of the tree, and no call writes a log).
C16_NextOnlyReads ==
  exercise_cache = InitialExerciseCache(tree)

\* position of the topic that holds the subtopic
TopicOf(id) ==
  CHOOSE t \in DOMAIN tree.children :
    \E k \in DOMAIN tree.children[t].children : tree.children[t].children[k].id = id

\* C17: in the finished entry of a subtopic s every other subtopic u is
\* tagged 1 exactly when it is in the topic of s and 4 exactly when it is in
\* another topic (so that, in a direction, nothing found after a far
\* subtopic is near).
C17_NearIffSameTopic ==
  phase = "done" =>
    \A s \in DOMAIN data :
      \A i \in 2..Len(data[s]) :
        data[s][i] # BLANK =>
          /\ EntryTag(data[s][i]) = <<"1">> <=> TopicOf(EntryId(data[s][i])) = TopicOf(s)
          /\ EntryTag(data[s][i]) = <<"4">> <=> TopicOf(EntryId(data[s][i])) # TopicOf(s)

\* a finished entry in which the walk has found a near subtopic two places
\* away and, beyond the first far subtopic, one of the same far topic and
\* one of a topic further away
C17_Witness ==
  /\ phase = "done"
  /\ \E s \in DOMAIN data :
       /\ \E i \in 4..Len(data[s]) : EntryTag(data[s][i]) = <<"1">>
       /\ \E i, j \in 4..Len(data[s]) :
            /\ i < j
            /\ EntryTag(data[s][i]) = <<"4">> /\ EntryTag(data[s][j]) = <<"4">>
            /\ TopicOf(EntryId(data[s][i])) = TopicOf(EntryId(data[s][j]))
       /\ Cardinality({TopicOf(EntryId(data[s][i])) : i \in {j \in 2..Len(data[s]) : data[s][j] # BLANK}}) >= 3

EveryTopicHasSubtopics ==
  \A t \in DOMAIN tree.children : Len(tree.children[t].children) >= 1

\* C18: on a tree whose topics all have a subtopic, the finished ranking of
\* a subtopic s holds every other subtopic u exactly once.
C18_CoversAllOnce ==
  (phase = "done" /\ EveryTopicHasSubtopics) =>
    \A s \in SubtopicIds(tree) :
      /\ s \in DOMAIN ranking
      /\ \A u \in SubtopicIds(tree) \ {s} :
           Cardinality({i \in DOMAIN ranking[s] : ranking[s][i] = u}) = 1

\* a finished build on a tree of three topics and five subtopics or more
C18_Witness ==
  /\ phase = "done" /\ EveryTopicHasSubtopics
  /\ Len(tree.children) = 3
  /\ Cardinality(SubtopicIds(tree)) >= 5
  /\ \E s \in DOMAIN ranking : Len(ranking[s]) >= 5

(* ------------- get_subsequent_neighbors, one iteration at a time ------ *)
\* the topics of the trees whose ids may repeat: one to MaxWalkSubs
\* subtopics, distinct inside the topic
WalkTopics ==
  {ks \in UNION {[1..n -> 1..MaxWalkIds] : n \in 1..MaxWalkSubs} :
     \A i, j \in DOMAIN ks : i # j => ks[i] # ks[j]}

WalkTreeOf(topics) ==
  [children |->
     [t \in DOMAIN topics |->
        [id |-> <<"T", IdChars[t]>>, kind |-> "Topic",
         children |-> [s \in DOMAIN topics[t] |-> SubtopicNode(topics[t][s])]]]]

WalkTrees == {WalkTreeOf(topics) : topics \in UNION {[1..n -> WalkTopics] : n \in 1..MaxWalkTopics}}

\* the state after ITERATION 1: data has one entry per id, the last written
InitWalk ==
  /\ tree \in WalkTrees
  /\ data = Iteration1From(tree, EmptyTable, 1)
  /\ ranking = EmptyTable
  /\ phase = "iter2"
  /\ topic_index = Len(tree.children)
  /\ subtopic_index = 0
  /\ pending = SubtopicIds(tree)
  /\ group = [u \in Users |-> "g1"]
  /\ exercise_log = {}
  /\ video_log = {}
  /\ content_log = {}
  /\ now = [u \in Users |-> 1]
  /\ exercise_cache = InitialExerciseCache(tree)
  /\ ret = Idle
  /\ walk = NoWalk

\* what the loop condition and the next iteration depend on
Cursors(w) == <<w.left, w.right, w.at_four_left, w.at_four_right>>

\* ITERATION 2 calls get_subsequent_neighbors for a subtopic
WalkStart ==
  /\ phase = "iter2"
  /\ walk = NoWalk
  /\ \E curr \in pending :
       walk' = [status |-> "running", curr |-> curr, w |-> WalkInit(data[curr]), seen |-> {}]
  /\ UNCHANGED <<tree, treeVars, userVars>>

\* one test of the while condition and, when it holds, one iteration; the
\* table does not change during the call, so that cursors and flags that
\* come back a second time come back for ever: the loop does not end
WalkIterate ==
  /\ walk.status = "running"
  /\ walk' = IF ~WalkGuard(walk.w) THEN [walk EXCEPT !.status = "returned"]
             ELSE IF Cursors(walk.w) \in walk.seen THEN [walk EXCEPT !.status = "loops for ever"]
             ELSE [walk EXCEPT !.w = WalkStep(@, data, walk.curr),
                               !.seen = @ \cup {Cursors(walk.w)}]
  /\ UNCHANGED <<tree, treeVars, userVars>>

NextWalk == WalkStart \/ WalkIterate

SpecWalk == InitWalk /\ [][NextWalk]_vars

\* C19: on every tree whose topics all have a subtopic, ids possibly
\* repeated in different topics, the walk of every subtopic comes to its end,
\* both cursors at "no neighbour" (the claim adds that the walk keeps no
\* subtopic twice; stated here is that it ends).
C19_WalkStops ==
  walk.status # "loops for ever"

\* C20: get_group_recommendations returns no exercise id that occurs in the
\* user's own exercise log (here for logs that hold exercises of the tree).
C20_GroupOnlyUnaccessed ==
  (ret.op = "next" /\ ret.status = "ok"
     /\ \A l \in exercise_log : HasAncestry(l.exercise_id)) =>
    \A i \in DOMAIN ret.group :
      ~\E l \in exercise_log : l.user = ret.user /\ l.exercise_id = ret.group[i]

====
